---- MODULE Spec2Model ----
(***************************************************************************)
(* A model of code/merge_raw_by_coingecko_rank.py: the two ranking         *)
(* adapters (fetch_ranked_symbols, fetch_ranked_symbols_from_web), the      *)
(* strategy selection in main, and the row merge engine                     *)
(* (build_merged_rows).                                                     *)
(*                                                                          *)
(* Strings that the code orders, lower-cases, strips, slices or parses are  *)
(* sequences of code points (" " = 32, "0" = 48, "A" = 65, "a" = 97), so    *)
(* that str.lower, str.strip, int(), str() and Python's lexicographic       *)
(* string order are computed, not assumed.  Opaque strings (coin_id,        *)
(* coin_name, column names) are TLA+ strings.                               *)
(*                                                                          *)
(* The remote endpoints honour their interface: the API answers a request   *)
(* with a JSON array of records or the request fails with                   *)
(* HTTPError/URLError/TimeoutError; the web page answers with markup or     *)
(* the request fails in the same way.                                       *)
(***************************************************************************)
EXTENDS Integers, Sequences, FiniteSets, TLC

VARIABLES
    pc,              \* where main is
    page,            \* the loop variable `page` of the running adapter
    attempt,         \* the loop variable `attempt` of fetch_ranked_symbols
    pending,         \* rows of the current page not yet looped over
    page_added,      \* fetch_ranked_symbols_from_web's page_added
    apiMap,          \* fetch_ranked_symbols' local symbol_to_coin
    webMap,          \* fetch_ranked_symbols_from_web's local symbol_to_coin
    symbol_to_coin,  \* main's symbol_to_coin
    apiReqs,         \* history: _request_text calls made for the current API page
    apiFails,        \* history: how many of them failed
    primaryRaised,   \* history: fetch_ranked_symbols raised out of its retry loop
    fallbackRan,     \* history: fetch_ranked_symbols_from_web was called
    webReqs,         \* history: _request_text calls made by the fallback
    zeroPage,        \* history: kind of the last fetched web page with no new entry
    lastRow,         \* history: the record or <tr> the adapter looped over last
    files,           \* build_merged_rows' argument `files`
    rankMap,         \* build_merged_rows' argument `symbol_to_coin`
    idx,             \* number of files the merge loop has consumed
    all_rows,        \* build_merged_rows' all_rows
    unmatched_files, \* build_merged_rows' unmatched_files
    base_headers,    \* build_merged_rows' base_headers
    output_headers,  \* build_merged_rows' first result
    mpc              \* where build_merged_rows is

fetchVars == <<pc, page, attempt, pending, page_added, apiMap, webMap,
               symbol_to_coin, apiReqs, apiFails, primaryRaised, fallbackRan,
               webReqs, zeroPage, lastRow>>
mergeVars == <<files, rankMap, idx, all_rows, unmatched_files, base_headers,
               output_headers, mpc>>
vars == <<fetchVars, mergeVars>>

-----------------------------------------------------------------------------
(* Bounds of the model.                                                     *)

\* pages an adapter may request (the code's default max_pages is 10)
MaxPages == 3
\* records (API) or <tr> rows (web) on one page
MaxRows == 2
\* length of the file list handed to build_merged_rows
MaxFiles == 3

(* Program constants.                                                       *)

\* for attempt in range(3)
MaxAttempts == 3
\* the placeholder's coin_rank, "999999"
SentinelRank == 999999
\* len("-usd-max.csv")
SuffixLen == 12

-----------------------------------------------------------------------------
(* Strings as sequences of code points.                                     *)

\* An optional value (a JSON null, a pattern that did not match): None, or Some(x)
None == <<>>
Some(x) == <<x>>

IsSpace(c) == c \in {9, 10, 11, 12, 13, 32}

LowerChar(c) == IF c >= 65 /\ c <= 90 THEN c + 32 ELSE c

\* str.lower
Lower(s) == [i \in 1..Len(s) |-> LowerChar(s[i])]

RECURSIVE LStrip(_)
LStrip(s) == IF s # <<>> /\ IsSpace(Head(s)) THEN LStrip(Tail(s)) ELSE s

RECURSIVE RStrip(_)
RStrip(s) ==
    IF s # <<>> /\ IsSpace(s[Len(s)]) THEN RStrip(SubSeq(s, 1, Len(s) - 1)) ELSE s

\* str.strip
Strip(s) == RStrip(LStrip(s))

\* str(n) of a non-negative int: its decimal digits
RECURSIVE Str(_)
Str(n) == IF n < 10 THEN <<48 + n>> ELSE Str(n \div 10) \o <<48 + (n % 10)>>

\* int(s) of a string of decimal digits
RECURSIVE IntOf(_)
IntOf(s) ==
    IF s = <<>> THEN 0 ELSE 10 * IntOf(SubSeq(s, 1, Len(s) - 1)) + (s[Len(s)] - 48)

\* Python's order on str: a < b
RECURSIVE StrLess(_, _)
StrLess(a, b) ==
    IF b = <<>> THEN FALSE
    ELSE IF a = <<>> THEN TRUE
    ELSE IF Head(a) # Head(b) THEN Head(a) < Head(b)
    ELSE StrLess(Tail(a), Tail(b))

\* html.unescape on the names the model feeds it
Unescape(n) == IF n = "AT&amp;T" THEN "AT&T" ELSE n

-----------------------------------------------------------------------------
(* The ranking map: a dict from symbol to entry.                            *)

EmptyMap == <<>>

\* symbol_to_coin[k] = v
Put(m, k, v) == [x \in (DOMAIN m) \cup {k} |-> IF x = k THEN v ELSE m[x]]

-----------------------------------------------------------------------------
(* Inputs of the adapters.                                                  *)

\* records the API may return: symbol, market_cap_rank (an int or null), id, name
ApiRecords ==
    { [symbol |-> <<97>>,     market_cap_rank |-> Some(2),       id |-> "alpha", name |-> "Alpha"],
      [symbol |-> <<32, 65>>, market_cap_rank |-> Some(10),      id |-> "alt-a", name |-> "Alt A"],
      [symbol |-> <<98>>,     market_cap_rank |-> None,          id |-> "beta",  name |-> "Beta"],
      [symbol |-> <<98>>,     market_cap_rank |-> Some(1000000), id |-> "",      name |-> "Beta"],
      [symbol |-> <<>>,       market_cap_rank |-> Some(1),       id |-> "anon",  name |-> ""] }

\* what the three patterns find in one <tr>: group(1) of each match, or None
WebRows ==
    { [rank |-> Some(<<48, 55>>), alt |-> Some(<<65>>), name |-> Some("AT&amp;T")],
      [rank |-> Some(<<57>>),     alt |-> Some(<<97>>), name |-> None],
      [rank |-> Some(<<49, 48>>), alt |-> Some(<<98>>), name |-> Some("Beta")],
      [rank |-> None,             alt |-> Some(<<98>>), name |-> Some("Beta")],
      [rank |-> Some(<<51>>),     alt |-> None,         name |-> Some("Gamma")] }

SeqsUpTo(S, n) == UNION { [1..k -> S] : k \in 0..n }

ApiPages == SeqsUpTo(ApiRecords, MaxRows)
WebPages == SeqsUpTo(WebRows, MaxRows)

-----------------------------------------------------------------------------
(* fetch_ranked_symbols: the primary adapter.                               *)

\* the loop body over one record of a page (lines 62-76)
ApiRowOverwrites(m, row) ==
    LET symbol == Strip(Lower(row.symbol))
    IN  IF symbol = <<>> \/ row.market_cap_rank = None THEN m
        ELSE Put(m, symbol,
                 [coin_id     |-> row.id,
                  coin_name   |-> row.name,
                  coin_symbol |-> symbol,
                  coin_rank   |-> Str(row.market_cap_rank[1])])
ApiRow(m, row) ==
    LET symbol == Strip(Lower(row.symbol))
    IN  IF symbol = <<>> \/ symbol \in DOMAIN m THEN m
        ELSE IF row.market_cap_rank = None THEN m
        ELSE Put(m, symbol,
                 [coin_id     |-> row.id,
                  coin_name   |-> row.name,
                  coin_symbol |-> symbol,
                  coin_rank   |-> Str(row.market_cap_rank[1])])

\* the loop body over one <tr> of a page (lines 106-126); page_added is counted
\* by the caller from the change of the map
WebRow(m, row) ==
    IF row.rank = None \/ row.alt = None THEN m
    ELSE LET symbol == Strip(Lower(row.alt[1]))
         IN  IF symbol = <<>> \/ symbol \in DOMAIN m THEN m
             ELSE Put(m, symbol,
                      [coin_id     |-> "",
                       coin_name   |-> IF row.name = None THEN "" ELSE Unescape(row.name[1]),
                       coin_symbol |-> symbol,
                       coin_rank   |-> row.rank[1]])

\* `if attempt == 2: raise` (lines 54-55)
RetriesExhaustedEarly(a) == a = 1
RetriesExhausted(a) == a = 2

\* `if page_added == 0: break` (lines 128-129)
NeverBreaks(added) == FALSE
BreakOnPage(added) == added = 0

\* main, lines 203-211: the adapter handed back m
MainKeepsPartial(m) ==
    /\ symbol_to_coin' = [s \in (DOMAIN apiMap) \cup (DOMAIN m) |->
                              IF s \in DOMAIN m THEN m[s] ELSE apiMap[s]]
    /\ pc' = IF symbol_to_coin' = EmptyMap THEN "unavailable" ELSE "merge"

MainAfterRanking(m) ==
    /\ symbol_to_coin' = m
    /\ pc' = IF m = EmptyMap THEN "unavailable" ELSE "merge"

\* main, lines 199-204
Start ==
    /\ pc = "start"
    /\ \E input_files \in BOOLEAN :
          IF input_files
          THEN pc' = "api_fetch" /\ page' = 1
          ELSE pc' = "no_files" /\ page' = page
    /\ UNCHANGED <<attempt, pending, page_added, apiMap, webMap, symbol_to_coin,
                   apiReqs, apiFails, primaryRaised, fallbackRan, webReqs, zeroPage,
                   lastRow>>
    /\ UNCHANGED mergeVars

\* the next iteration of `for page in range(1, max_pages + 1)`, or the return
ApiNextPage(m) ==
    IF page < MaxPages
    THEN /\ page' = page + 1
         /\ attempt' = 0
         /\ apiReqs' = 0
         /\ apiFails' = 0
         /\ pc' = "api_fetch"
         /\ UNCHANGED symbol_to_coin
    ELSE /\ MainAfterRanking(m)
         /\ UNCHANGED <<page, attempt, apiReqs, apiFails>>

\* _request_text raises HTTPError, URLError or TimeoutError (lines 50-56); the
\* third failure leaves fetch_ranked_symbols and main calls the fallback (205-206)
ApiRequestFails ==
    /\ pc = "api_fetch"
    /\ attempt < MaxAttempts
    /\ apiReqs' = apiReqs + 1
    /\ apiFails' = apiFails + 1
    /\ IF RetriesExhausted(attempt)
       THEN /\ primaryRaised' = TRUE
            /\ fallbackRan' = TRUE
            /\ pc' = "web_fetch"
            /\ page' = 1
            /\ UNCHANGED attempt
       ELSE /\ attempt' = attempt + 1
            /\ UNCHANGED <<primaryRaised, fallbackRan, pc, page>>
    /\ UNCHANGED <<pending, page_added, apiMap, webMap, symbol_to_coin, webReqs, zeroPage,
                   lastRow>>
    /\ UNCHANGED mergeVars

\* _request_text returns the payload (lines 51-52, 58-60)
ApiRequestOk ==
    /\ pc = "api_fetch"
    /\ attempt < MaxAttempts
    /\ apiReqs' = apiReqs + 1
    /\ \E data \in ApiPages :
          IF data = <<>>
          THEN MainAfterRanking(apiMap) /\ UNCHANGED pending
          ELSE pending' = data /\ pc' = "api_rows" /\ UNCHANGED symbol_to_coin
    /\ UNCHANGED <<page, attempt, page_added, apiMap, webMap, apiFails,
                   primaryRaised, fallbackRan, webReqs, zeroPage, lastRow>>
    /\ UNCHANGED mergeVars

\* one iteration of `for row in data` (lines 62-76)
ApiRowStep ==
    /\ pc = "api_rows"
    /\ pending # <<>>
    /\ apiMap' = ApiRow(apiMap, Head(pending))
    /\ lastRow' = Some(Head(pending))
    /\ pending' = Tail(pending)
    /\ IF Tail(pending) = <<>>
       THEN ApiNextPage(apiMap')
       ELSE UNCHANGED <<pc, page, attempt, apiReqs, apiFails, symbol_to_coin>>
    /\ UNCHANGED <<page_added, webMap, primaryRaised, fallbackRan, webReqs, zeroPage>>
    /\ UNCHANGED mergeVars

-----------------------------------------------------------------------------
(* fetch_ranked_symbols_from_web: the fallback adapter.                     *)

\* the next iteration of `for page in range(1, max_pages + 1)`, or the return
WebNextPage(m) ==
    IF page < MaxPages
    THEN page' = page + 1 /\ pc' = "web_fetch" /\ UNCHANGED symbol_to_coin
    ELSE MainAfterRanking(m) /\ UNCHANGED page

\* _request_text raises: `continue` (lines 96-99)
WebRequestFails ==
    /\ pc = "web_fetch"
    /\ webReqs' = webReqs + 1
    /\ WebNextPage(webMap)
    /\ UNCHANGED <<attempt, pending, page_added, apiMap, webMap, apiReqs, apiFails,
                   primaryRaised, fallbackRan, zeroPage, lastRow>>
    /\ UNCHANGED mergeVars

\* _request_text returns the markup; row_pattern.findall gives its rows
\* (lines 97, 101-105)
WebRequestOk ==
    /\ pc = "web_fetch"
    /\ webReqs' = webReqs + 1
    /\ \E rows \in WebPages :
          IF rows = <<>>
          THEN /\ WebNextPage(webMap)
               /\ zeroPage' = "no_rows"
               /\ UNCHANGED <<pending, page_added>>
          ELSE /\ pending' = rows
               /\ page_added' = 0
               /\ pc' = "web_rows"
               /\ UNCHANGED <<page, symbol_to_coin, zeroPage>>
    /\ UNCHANGED <<attempt, apiMap, webMap, apiReqs, apiFails, primaryRaised, fallbackRan,
                   lastRow>>
    /\ UNCHANGED mergeVars

\* one iteration of `for row_html in rows` (lines 106-126) and, after the last
\* one, the test of page_added (lines 128-129)
WebRowStep ==
    /\ pc = "web_rows"
    /\ pending # <<>>
    /\ webMap' = WebRow(webMap, Head(pending))
    /\ page_added' = IF webMap' # webMap THEN page_added + 1 ELSE page_added
    /\ lastRow' = Some(Head(pending))
    /\ pending' = Tail(pending)
    /\ IF Tail(pending) = <<>>
       THEN /\ zeroPage' = IF page_added' = 0 THEN "no_new" ELSE zeroPage
            /\ IF BreakOnPage(page_added')
               THEN MainAfterRanking(webMap') /\ UNCHANGED page
               ELSE WebNextPage(webMap')
       ELSE UNCHANGED <<pc, page, symbol_to_coin, zeroPage>>
    /\ UNCHANGED <<attempt, apiMap, apiReqs, apiFails, primaryRaised, fallbackRan, webReqs>>
    /\ UNCHANGED mergeVars

-----------------------------------------------------------------------------
(* The ranking acquisition of one run of main.                              *)

MergeIdle ==
    /\ files = <<>>
    /\ rankMap = EmptyMap
    /\ idx = 0
    /\ all_rows = <<>>
    /\ unmatched_files = <<>>
    /\ base_headers = <<>>
    /\ output_headers = <<>>
    /\ mpc = "idle"

FetchIdle ==
    /\ pc = "start"
    /\ page = 0
    /\ attempt = 0
    /\ pending = <<>>
    /\ page_added = 0
    /\ apiMap = EmptyMap
    /\ webMap = EmptyMap
    /\ symbol_to_coin = EmptyMap
    /\ apiReqs = 0
    /\ apiFails = 0
    /\ primaryRaised = FALSE
    /\ fallbackRan = FALSE
    /\ webReqs = 0
    /\ zeroPage = "none"
    /\ lastRow = None

Init == FetchIdle /\ MergeIdle

Next ==
    \/ Start
    \/ ApiRequestFails
    \/ ApiRequestOk
    \/ ApiRowStep
    \/ WebRequestFails
    \/ WebRequestOk
    \/ WebRowStep

Spec == Init /\ [][Next]_vars

-----------------------------------------------------------------------------
(* build_merged_rows: the row merge engine.                                 *)

\* "-usd-max.csv"
Suffix == <<45, 117, 115, 100, 45, 109, 97, 120, 46, 99, 115, 118>>

\* parse_symbol_from_filename: path.name[: -len("-usd-max.csv")].lower()
parse_symbol_from_filename(name) == Lower(SubSeq(name, 1, Len(name) - SuffixLen))

Range(q) == { q[i] : i \in 1..Len(q) }

\* the five columns build_merged_rows puts first (lines 187-192)
FixedHeaders == <<"coin_rank", "coin_id", "coin_name", "coin_symbol", "source_file">>

\* dict.get(k, "") on a row of csv.DictReader or on a merged row
RowGet(row, k) == IF k \in DOMAIN row THEN row[k] ELSE <<>>

\* the placeholder of an unmatched file (lines 156-161)
Placeholder(symbol) ==
    [coin_id |-> "", coin_name |-> "", coin_symbol |-> symbol,
     coin_rank |-> Str(SentinelRank)]

\* coin_meta of a file (lines 152-161)
CoinMeta(m, symbol) == IF symbol \in DOMAIN m THEN m[symbol] ELSE Placeholder(symbol)

\* `if not base_headers: base_headers = list(reader.fieldnames or [])` (165-166)
LastHeaders(cur, fieldnames) == fieldnames
BaseHeaders(cur, fieldnames) == IF cur = <<>> THEN fieldnames ELSE cur

\* the dict `merged` of one row (lines 169-176): the base columns are unpacked
\* last, over the five fixed keys
Merged(meta, name, headers, row) ==
    [k \in Range(FixedHeaders) \cup Range(headers) |->
        IF k \in Range(headers) THEN RowGet(row, k)
        ELSE IF k = "coin_rank" THEN meta.coin_rank
        ELSE IF k = "coin_id" THEN meta.coin_id
        ELSE IF k = "coin_name" THEN meta.coin_name
        ELSE IF k = "coin_symbol" THEN meta.coin_symbol
        ELSE name]

\* one iteration of `for file_path in files` (lines 150-177) on the three
\* accumulators
IngestSkippingUnmatched(acc, f, m) ==
    IF parse_symbol_from_filename(f.name) \notin DOMAIN m
    THEN [acc EXCEPT !.unmatched_files = Append(@, f.name)]
    ELSE LET headers == BaseHeaders(acc.base_headers, f.fieldnames)
         IN  [all_rows |-> acc.all_rows \o
                  [i \in 1..Len(f.rows) |->
                      Merged(m[parse_symbol_from_filename(f.name)], f.name, headers, f.rows[i])],
              unmatched_files |-> acc.unmatched_files,
              base_headers |-> headers]
IngestFile(acc, f, m) ==
    LET symbol  == parse_symbol_from_filename(f.name)
        matched == symbol \in DOMAIN m
        meta    == CoinMeta(m, symbol)
        headers == BaseHeaders(acc.base_headers, f.fieldnames)
    IN  [all_rows |-> acc.all_rows \o
             [i \in 1..Len(f.rows) |-> Merged(meta, f.name, headers, f.rows[i])],
         unmatched_files |->
             IF matched THEN acc.unmatched_files ELSE Append(acc.unmatched_files, f.name),
         base_headers |-> headers]

\* the sort key's order (lines 180-184): tuples compare component by component
KeyLessRankAsText(a, b) ==
    \/ StrLess(a.coin_rank, b.coin_rank)
    \/ /\ a.coin_rank = b.coin_rank
       /\ \/ StrLess(a.coin_symbol, b.coin_symbol)
          \/ /\ a.coin_symbol = b.coin_symbol
             /\ StrLess(RowGet(a, "snapped_at"), RowGet(b, "snapped_at"))
KeyLess(a, b) ==
    \/ IntOf(a.coin_rank) < IntOf(b.coin_rank)
    \/ /\ IntOf(a.coin_rank) = IntOf(b.coin_rank)
       /\ \/ StrLess(a.coin_symbol, b.coin_symbol)
          \/ /\ a.coin_symbol = b.coin_symbol
             /\ StrLess(RowGet(a, "snapped_at"), RowGet(b, "snapped_at"))

\* x put into a sorted list before the first item greater than it
RECURSIVE Insert(_, _)
Insert(sorted, x) ==
    IF sorted = <<>> THEN <<x>>
    ELSE IF KeyLess(x, Head(sorted)) THEN <<x>> \o sorted
    ELSE <<Head(sorted)>> \o Insert(Tail(sorted), x)

\* list.sort(key=...) (line 179): a stable sort
RECURSIVE SortRows(_)
SortRows(rows) ==
    IF rows = <<>> THEN <<>>
    ELSE Insert(SortRows(SubSeq(rows, 1, Len(rows) - 1)), rows[Len(rows)])

\* output_headers (lines 187-194)
OutputHeaders(headers) == FixedHeaders \o headers

NoRows == [all_rows |-> <<>>, unmatched_files |-> <<>>, base_headers |-> <<>>]

\* the accumulators after the first n files of fs
RECURSIVE Ingested(_, _, _)
Ingested(fs, m, n) == IF n = 0 THEN NoRows ELSE IngestFile(Ingested(fs, m, n - 1), fs[n], m)

\* build_merged_rows as a function of its arguments (lines 142-195)
build_merged_rows(fs, m) ==
    LET acc == Ingested(fs, m, Len(fs))
    IN  [output_headers  |-> OutputHeaders(acc.base_headers),
         all_rows        |-> SortRows(acc.all_rows),
         unmatched_files |-> acc.unmatched_files]

(* Inputs of build_merged_rows.                                             *)

\* the files of the raw directory: name, header row (none in an empty file) and
\* data rows as csv.DictReader yields them
RawFiles ==
    { [name |-> <<97>> \o Suffix, fieldnames |-> <<"snapped_at", "price">>,
       rows |-> << [snapped_at |-> <<50>>, price |-> <<53>>],
                   [snapped_at |-> <<49>>, price |-> <<54>>] >>],
      [name |-> <<65>> \o Suffix, fieldnames |-> <<"snapped_at", "price">>,
       rows |-> << [snapped_at |-> <<49>>, price |-> <<55>>] >>],
      [name |-> <<98>> \o Suffix, fieldnames |-> <<"price", "total_volume">>,
       rows |-> << [price |-> <<56>>, total_volume |-> <<51>>] >>],
      [name |-> <<122>> \o Suffix, fieldnames |-> <<"snapped_at", "price">>,
       rows |-> << [snapped_at |-> <<>>, price |-> <<57>>] >>],
      [name |-> <<121>> \o Suffix, fieldnames |-> <<"snapped_at">>, rows |-> <<>>],
      [name |-> <<101>> \o Suffix, fieldnames |-> <<>>, rows |-> <<>>] }

\* the file lists: up to MaxFiles files of the directory, each once, in any order
FileLists ==
    { fs \in SeqsUpTo(RawFiles, MaxFiles) :
        /\ fs # <<>>
        /\ \A i, j \in 1..Len(fs) : i # j => fs[i] # fs[j] }

\* `for row in data` (lines 62-76) and `for row_html in rows` (106-126) on a
\* whole page
RECURSIVE ApiRowsInto(_, _)
ApiRowsInto(m, rows) ==
    IF rows = <<>> THEN m ELSE ApiRowsInto(ApiRow(m, Head(rows)), Tail(rows))

RECURSIVE WebRowsInto(_, _)
WebRowsInto(m, rows) ==
    IF rows = <<>> THEN m ELSE WebRowsInto(WebRow(m, Head(rows)), Tail(rows))

\* the ranking maps main hands to build_merged_rows: what an adapter makes of
\* one page, when that is not empty
RankingMaps ==
    ({ ApiRowsInto(EmptyMap, p) : p \in ApiPages } \cup
     { WebRowsInto(EmptyMap, p) : p \in WebPages }) \ {EmptyMap}

\* one iteration of `for file_path in files` (lines 150-177)
MergeFile ==
    /\ mpc = "loop"
    /\ idx < Len(files)
    /\ LET acc == IngestFile([all_rows |-> all_rows,
                              unmatched_files |-> unmatched_files,
                              base_headers |-> base_headers],
                             files[idx + 1], rankMap)
       IN  /\ all_rows' = acc.all_rows
           /\ unmatched_files' = acc.unmatched_files
           /\ base_headers' = acc.base_headers
    /\ idx' = idx + 1
    /\ UNCHANGED <<files, rankMap, output_headers, mpc>>
    /\ UNCHANGED fetchVars

\* after the loop: the sort, the header and the return (lines 179-195)
SortAndReturn ==
    /\ mpc = "loop"
    /\ idx = Len(files)
    /\ all_rows' = SortRows(all_rows)
    /\ output_headers' = OutputHeaders(base_headers)
    /\ mpc' = "done"
    /\ UNCHANGED <<files, rankMap, idx, unmatched_files, base_headers>>
    /\ UNCHANGED fetchVars

\* build_merged_rows is entered with a file list and a ranking map
MergeInit ==
    /\ FetchIdle
    /\ files \in FileLists
    /\ rankMap \in RankingMaps
    /\ idx = 0
    /\ all_rows = <<>>
    /\ unmatched_files = <<>>
    /\ base_headers = <<>>
    /\ output_headers = <<>>
    /\ mpc = "loop"

MergeNext == MergeFile \/ SortAndReturn

SpecMerge == MergeInit /\ [][MergeNext]_vars

-----------------------------------------------------------------------------
(* Properties of the ranking acquisition.                                   *)

\* C2, as claimed: once a fetched web page has yielded zero new entries, be it
\* that it held no row at all or that none of its rows was new, the fallback
\* requests no further page.
C2_NoRequestAfterAnyZeroPage ==
    [][zeroPage # "none" => webReqs' = webReqs]_vars

\* C2, amended: once a fetched web page that holds at least one row has
\* yielded zero new entries, the fallback has returned to main and requests no
\* further page.
C2_NoRequestAfterPageWithoutNewEntry ==
    /\ [](zeroPage = "no_new" => pc \in {"merge", "unavailable"})
    /\ [][zeroPage = "no_new" => webReqs' = webReqs]_vars

\* C2 witness: the fallback stopped before max_pages on a page whose rows were
\* all captured already.
C2_StoppedEarly ==
    /\ zeroPage = "no_new"
    /\ webReqs < MaxPages
    /\ webMap # EmptyMap
    /\ pc = "merge"

\* C3, as claimed: main fails with the ranking-unavailable error only after the
\* fallback path ran too and yielded an empty mapping.
C3_UnavailableOnlyAfterBothPaths ==
    pc = "unavailable" => (fallbackRan /\ webMap = EmptyMap /\ webReqs > 0)

\* C6: a page of the primary path is requested at most 3 times; the primary
\* path has raised only if the 3 requests of the page it was on all failed; the
\* fallback runs only after the primary path raised.
C6_RetryBound ==
    /\ apiReqs <= 3
    /\ apiFails <= apiReqs
    /\ primaryRaised => (apiReqs = 3 /\ apiFails = 3)
    /\ fallbackRan => primaryRaised
    /\ (pc \in {"web_fetch", "web_rows"} \/ webReqs > 0) => primaryRaised

\* C6 witness: page 1 succeeded, page 2 failed three times, the fallback runs.
C6_RaisedOnLaterPage ==
    /\ primaryRaised
    /\ apiMap # EmptyMap
    /\ page = 1
    /\ pc = "web_fetch"

\* every key is a non-empty lower-case stripped symbol and is its entry's coin_symbol
MapKeyedBySymbol(m) ==
    \A s \in DOMAIN m :
        /\ s # <<>>
        /\ s = Strip(Lower(s))
        /\ m[s].coin_symbol = s

\* every entry of m is still in n, unchanged
EntriesKept(m, n) == \A s \in DOMAIN m : s \in DOMAIN n /\ n[s] = m[s]

\* C8: at every point of either adapter's fetch the ranking map is keyed by its
\* entries' own lower-case symbols, and no step of the fetch changes or removes
\* an entry already stored.
C8_FirstSeenWins ==
    /\ [](MapKeyedBySymbol(apiMap) /\ MapKeyedBySymbol(webMap))
    /\ [][EntriesKept(apiMap, apiMap') /\ EntriesKept(webMap, webMap')]_vars

\* C8 witness: the primary adapter has just looped over a ranked record whose
\* symbol, " A", normalises to a symbol stored before, and the first entry stands.
C8_DuplicateDiscarded ==
    /\ lastRow # None
    /\ lastRow[1] \in ApiRecords
    /\ lastRow[1].market_cap_rank # None
    /\ Strip(Lower(lastRow[1].symbol)) \in DOMAIN apiMap
    /\ apiMap[Strip(Lower(lastRow[1].symbol))].coin_id # lastRow[1].id

\* C10: the map main goes on with is the fallback's alone when the primary path
\* raised (every coin_id empty, whatever the primary path had collected), and
\* the primary path's alone otherwise, the fallback never having run.
C10_OneSource ==
    pc = "merge" =>
        IF primaryRaised
        THEN /\ symbol_to_coin = webMap
             /\ \A s \in DOMAIN symbol_to_coin : symbol_to_coin[s].coin_id = ""
        ELSE /\ symbol_to_coin = apiMap
             /\ webMap = EmptyMap
             /\ ~fallbackRan

\* C10 witness: the primary path had collected an entry before it raised, and
\* the map main goes on with does not hold it.
C10_PartialDiscarded ==
    /\ pc = "merge"
    /\ primaryRaised
    /\ \E s \in DOMAIN apiMap : s \notin DOMAIN symbol_to_coin

-----------------------------------------------------------------------------
(* Properties of the row merge engine.                                      *)

\* the file lists with the same files as fs, in every order
Reorderings(fs) == { q \in [1..Len(fs) -> Range(fs)] : Range(q) = Range(fs) }

\* the file of the list that a merged row names as its source_file
SourceOf(r) == CHOOSE f \in Range(files) : f.name = r.source_file

IsUnmatched(r) == parse_symbol_from_filename(r.source_file) \notin DOMAIN rankMap

\* C1, as claimed: build_merged_rows returns the same header and the same
\* sequence of rows for every reordering of the file list.
C1_OrderIndependent ==
    mpc = "done" =>
        \A q \in Reorderings(files) :
            /\ build_merged_rows(q, rankMap).output_headers = output_headers
            /\ build_merged_rows(q, rankMap).all_rows = all_rows

\* C4, as claimed: every row of an unmatched file has coin_rank 999999 and
\* comes after every row of a matched file.
C4_UnmatchedLast ==
    mpc = "done" =>
        \A i \in 1..Len(all_rows) :
            IsUnmatched(all_rows[i]) =>
                /\ all_rows[i].coin_rank = <<57, 57, 57, 57, 57, 57>>
                /\ \A j \in 1..Len(all_rows) : ~IsUnmatched(all_rows[j]) => j < i

\* a file's row and a merged row, read under the columns of the schema
FileRowUnder(headers, row) == [k \in Range(headers) |-> RowGet(row, k)]
MergedRowUnder(headers, r) == [k \in Range(headers) |-> r[k]]

RECURSIVE RowCount(_, _)
RowCount(fs, n) == IF n = 0 THEN 0 ELSE RowCount(fs, n - 1) + Len(fs[n].rows)

\* C5: of every file consumed so far, every data row is in the merged rows as
\* many times as it is in the file (once, when the file does not repeat it)
\* under that file's name; every merged row names a consumed file; and the
\* number of merged rows is the sum of the consumed files' row counts.
C5_EveryRowOnce ==
    /\ Len(all_rows) = RowCount(files, idx)
    /\ \A j \in 1..Len(all_rows) :
           \E i \in 1..idx : all_rows[j].source_file = files[i].name
    /\ \A i \in 1..idx : \A k \in 1..Len(files[i].rows) :
           Cardinality({ j \in 1..Len(all_rows) :
                           /\ all_rows[j].source_file = files[i].name
                           /\ MergedRowUnder(base_headers, all_rows[j])
                                = FileRowUnder(base_headers, files[i].rows[k]) })
           = Cardinality({ n \in 1..Len(files[i].rows) :
                             FileRowUnder(base_headers, files[i].rows[n])
                               = FileRowUnder(base_headers, files[i].rows[k]) })

\* C5 witness: the merge returned the rows of two files that share a symbol and
\* of a file whose symbol is unmatched.
C5_SharedAndUnmatchedMerged ==
    /\ mpc = "done"
    /\ \E i, j \in 1..Len(files) :
           /\ i # j
           /\ parse_symbol_from_filename(files[i].name)
                = parse_symbol_from_filename(files[j].name)
           /\ files[i].rows # <<>>
           /\ files[j].rows # <<>>
    /\ \E i \in 1..Len(files) :
           /\ parse_symbol_from_filename(files[i].name) \notin DOMAIN rankMap
           /\ files[i].rows # <<>>

\* C7, as claimed: the header is the five fixed columns followed by the
\* columns of the first file of the list.
C7_HeaderFromFirstFile ==
    mpc = "done" => output_headers = FixedHeaders \o files[1].fieldnames

\* the header row of the first file of fs that has one
RECURSIVE FirstHeaderRow(_)
FirstHeaderRow(fs) ==
    IF fs = <<>> THEN <<>>
    ELSE IF Head(fs).fieldnames # <<>> THEN Head(fs).fieldnames
    ELSE FirstHeaderRow(Tail(fs))

\* C7, amended: the header is the five fixed columns followed by the columns
\* of the first file of the list that has a header row, in that file's order;
\* every merged row has exactly these columns, holds its file's value in each
\* schema column the file has, and the empty string in each it lacks.
C7_HeaderFromFirstHeaderRow ==
    mpc = "done" =>
        /\ output_headers = FixedHeaders \o FirstHeaderRow(files)
        /\ \A j \in 1..Len(all_rows) :
               /\ DOMAIN all_rows[j] = Range(output_headers)
               /\ \A k \in Range(FirstHeaderRow(files)) :
                      IF k \in Range(SourceOf(all_rows[j]).fieldnames)
                      THEN \E n \in 1..Len(SourceOf(all_rows[j]).rows) :
                               all_rows[j][k] = SourceOf(all_rows[j]).rows[n][k]
                      ELSE all_rows[j][k] = <<>>

\* C7 witness: the first file of the list has no header row, the schema came
\* from a later file, and a row of a file that lacks a schema column was merged.
C7_SchemaFromLaterFile ==
    /\ mpc = "done"
    /\ files[1].fieldnames = <<>>
    /\ Len(output_headers) > Len(FixedHeaders)
    /\ \E j \in 1..Len(all_rows) :
           \E k \in Range(base_headers) :
               k \notin Range(SourceOf(all_rows[j]).fieldnames)

\* the sort key of a merged row, and the order of two keys
SortKey(r) == <<IntOf(r.coin_rank), r.coin_symbol, RowGet(r, "snapped_at")>>
KeyLeq(a, b) ==
    \/ a[1] < b[1]
    \/ /\ a[1] = b[1]
       /\ \/ StrLess(a[2], b[2])
          \/ a[2] = b[2] /\ ~StrLess(b[3], a[3])

\* C9: in the returned rows the key (coin_rank as an integer, coin_symbol,
\* snapped_at or the empty string) of each row is at most the key of the next.
C9_Sorted ==
    mpc = "done" =>
        \A i \in 1..(Len(all_rows) - 1) :
            KeyLeq(SortKey(all_rows[i]), SortKey(all_rows[i + 1]))

\* C9 witness: the returned rows hold a rank that is smaller as an integer and
\* greater as text than a later one, and rows of one symbol in snapped_at
\* order that their file held in the other order.
C9_SortedByIntegerRank ==
    /\ mpc = "done"
    /\ \E i, j \in 1..Len(all_rows) :
           /\ i < j
           /\ IntOf(all_rows[i].coin_rank) < IntOf(all_rows[j].coin_rank)
           /\ StrLess(all_rows[j].coin_rank, all_rows[i].coin_rank)
    /\ \E i \in 1..(Len(all_rows) - 1) :
           /\ all_rows[i].source_file = all_rows[i + 1].source_file
           /\ all_rows[i]["snapped_at"] = <<49>>
           /\ all_rows[i + 1]["snapped_at"] = <<50>>

====
